---------------------------- MODULE Spec2Model ----------------------------
(***************************************************************************)
(* Model of static/js/prompts.js: the DOMContentLoaded handler that builds *)
(* one card per prompt file (sequential fetches), and the delegated click  *)
(* and keydown listeners of the grid (toggle, copy, Escape).               *)
(*                                                                         *)
(* A JavaScript string is a sequence of code units; a unit is a TLA+       *)
(* string.  Text fetched from the server is a sequence of one-character    *)
(* units; a fixed literal of the script is kept as one unit.               *)
(***************************************************************************)
EXTENDS Naturals, Sequences, FiniteSets

VARIABLES
  hasGrid,      \* the page has an element with id 'prompts-grid'
  pc,           \* position of the async DOMContentLoaded handler
  idx,          \* index in promptFiles of the loop's current fileName
  cards,        \* children of the grid, in document order
  requests,     \* indices of the files whose fetch is outstanding
  results,      \* what the network answered, per file settled so far
  listeners,    \* event types with a listener attached to the grid
  hasExpanded,  \* grid.classList contains 'has-expanded'
  focus,        \* document.activeElement, as the script moves it:
                \* <<kind, card index>> or NoFocus
  focusTimers,  \* per card: pending setTimeout(codeEl.focus, 120) callbacks
  writes,       \* per card: the texts of its clipboard writes in flight
  clearTimers,  \* per card: pending setTimeout(clear status, 2200) callbacks
  toggles,      \* per card: parity (0 or 1) of the toggle activations handled
  escapes,      \* per card: an Escape press was handled in its full text
  ptext,        \* preview derivation in isolation: the text
  ppreview,     \* preview derivation in isolation: preview.textContent
  pdone         \* preview derivation in isolation: derivation has run

pVars == <<ptext, ppreview, pdone>>
vars == <<hasGrid, pc, idx, cards, requests, results, listeners, hasExpanded, focus,
          focusTimers, writes, clearTimers, toggles, escapes,
          ptext, ppreview, pdone>>

-----------------------------------------------------------------------------
(* Bounds of the model *)

\* number of entries of promptFiles that are modelled (a prefix of the list)
NumFiles == 2
\* longest short text given to the preview derivation
MaxLen == 7
\* how far beyond the 400 character threshold the long texts go
MaxOver == 2
\* copy operations of the whole page that may be unfinished at once
MaxCopies == 2
\* focus timeouts of the whole page that may be pending at once
MaxFocusTimers == 1

-----------------------------------------------------------------------------
(* Strings *)

LF == "\n"
CR == "\r"
ELLIPSIS == "U+2026"   \* the one code unit of the character U+2026

Str(s) == <<s>>        \* a literal of the script

Take(s, n) == SubSeq(s, 1, IF n < Len(s) THEN n ELSE Len(s))

\* the letters a-z and, in the same order, A-Z
LowerCase == <<"a","b","c","d","e","f","g","h","i","j","k","l","m",
               "n","o","p","q","r","s","t","u","v","w","x","y","z">>
UpperCase == <<"A","B","C","D","E","F","G","H","I","J","K","L","M",
               "N","O","P","Q","R","S","T","U","V","W","X","Y","Z">>
Digit == {"0","1","2","3","4","5","6","7","8","9"}

\* characters of /[a-z0-9]/i: with the flag i the class holds both cases
Alnum ==
  {LowerCase[k] : k \in 1..Len(LowerCase)}
    \cup {UpperCase[k] : k \in 1..Len(UpperCase)} \cup Digit
IsAlnum(c) == c \in Alnum

\* the lower-case letter of each of A-Z
LowerOf == [c \in {UpperCase[k] : k \in 1..Len(UpperCase)} |->
              LowerCase[CHOOSE k \in 1..Len(UpperCase) : UpperCase[k] = c]]

\* .toLowerCase(): A-Z go to a-z, every other character stays
toLowerCase(s) ==
  [k \in 1..Len(s) |-> IF s[k] \in DOMAIN LowerOf THEN LowerOf[s[k]] ELSE s[k]]

\* name.replace(/[^a-z0-9]+/gi, '_'): each maximal run of other characters
\* becomes one underscore
RECURSIVE ReplaceRuns(_, _, _)
ReplaceRuns(name, k, acc) ==
  IF k > Len(name) THEN acc
  ELSE IF IsAlnum(name[k]) THEN ReplaceRuns(name, k + 1, Append(acc, name[k]))
  ELSE IF k > 1 /\ ~IsAlnum(name[k - 1]) THEN ReplaceRuns(name, k + 1, acc)
  ELSE ReplaceRuns(name, k + 1, Append(acc, "_"))

\* .replace(/^_|_$/g, ''): one leading and one trailing underscore removed
StripEnds(s) ==
  LET a == IF Len(s) > 0 /\ s[1] = "_" THEN SubSeq(s, 2, Len(s)) ELSE s
  IN  IF Len(a) > 0 /\ a[Len(a)] = "_" THEN SubSeq(a, 1, Len(a) - 1) ELSE a

\* makeId: 'p_' + name.replace(...).replace(...).toLowerCase()
makeId(name) ==
  <<"p", "_">> \o toLowerCase(StripEnds(ReplaceRuns(name, 1, <<>>)))

-----------------------------------------------------------------------------
(* The preview derivation of a fetched text *)

\* text.split(/\r?\n/): a separator is a line feed together with the
\* carriage return right before it, if there is one.  SplitFrom gives the
\* pieces of text from position from on, after the pieces in acc.
RECURSIVE SplitFrom(_, _, _)
SplitFrom(text, from, acc) ==
  LET feeds == {k \in from..Len(text) : text[k] = LF}
  IN  IF feeds = {}
      THEN Append(acc, SubSeq(text, from, Len(text)))
      ELSE LET p == CHOOSE k \in feeds : \A q \in feeds : k <= q
               last == IF p > from /\ text[p - 1] = CR THEN p - 2 ELSE p - 1
           IN  SplitFrom(text, p + 1, Append(acc, SubSeq(text, from, last)))

Split(text) == SplitFrom(text, 1, <<>>)

\* parts.join('\n')
RECURSIVE Join(_)
Join(parts) ==
  IF Len(parts) = 0 THEN <<>>
  ELSE IF Len(parts) = 1 THEN parts[1]
  ELSE parts[1] \o <<LF>> \o Join(Tail(parts))

PreviewLines == 6
PreviewChars == 400

\* const lines = text.split(/\r?\n/).slice(0, 6).join('\n')
FirstLines(text) == Join(Take(Split(text), PreviewLines))

\* a variant with the two branches swapped
previewTextSwapped(text) ==
  LET lines == FirstLines(text)
  IN  IF Len(lines) > 0 THEN Take(text, PreviewChars) ELSE lines

\* const previewText = lines.length > 0 ? lines : text.slice(0, 400)
previewText(text) ==
  LET lines == FirstLines(text)
  IN  IF Len(lines) > 0 THEN lines ELSE Take(text, PreviewChars)

\* preview.textContent = previewText + (text.length > previewText.length ? '\n...' : '')
PreviewOf(text) ==
  previewText(text) \o
    (IF Len(text) > Len(previewText(text)) THEN <<LF, ELLIPSIS>> ELSE <<>>)

-----------------------------------------------------------------------------
(* The fixed list and the card skeleton *)

\* a file name is spelled as its sequence of characters
AllPromptFiles ==
  << <<"r","e","c","_","b","a","s","e",".","j","i","n","j","a","2">>,
     <<"r","e","c","_","w","i","t","h","_","c","o","n","t","e","x","t",
       ".","j","i","n","j","a","2">>,
     <<"i","n","t","e","n","t","_","c","l","a","s","s","i","f","i","c","a",
       "t","i","o","n",".","j","i","n","j","a","2">>,
     <<"r","e","c","_","b","a","s","e","l","i","n","e",".","j","i","n","j","a","2">>,
     <<"c","q","s","_","v","a","r","i","a","n","t","1",".","j","i","n","j","a","2">>,
     <<"c","f","e","_","c","o","m","b","i","n","a","t","i","o","n",
       ".","j","i","n","j","a","2">> >>

\* the modelled prefix of the list
promptFiles == SubSeq(AllPromptFiles, 1, NumFiles)

NoFocus == <<"none", 0>>

LOADING == <<"Loading", ELLIPSIS>>   \* the placeholder of the skeleton

\* a variant whose preview starts empty
SkeletonNoPlaceholder(fileName) ==
  [ file             |-> fileName,
    ariaExpanded     |-> "false",
    ariaControls     |-> makeId(fileName) \o Str("_wrapper"),
    label            |-> "View",
    preview          |-> <<>>,
    previewCollapsed |-> FALSE,
    wrapperId        |-> makeId(fileName) \o Str("_wrapper"),
    wrapperExpanded  |-> FALSE,
    ariaHidden       |-> "true",
    codeId           |-> makeId(fileName) \o Str("_code"),
    pre              |-> <<>>,
    dataTarget       |-> makeId(fileName) \o Str("_code"),
    status           |-> "" ]

\* the card built for fileName before its fetch is issued
Skeleton(fileName) ==
  [ file             |-> fileName,
    ariaExpanded     |-> "false",                        \* toggleBtn aria-expanded
    ariaControls     |-> makeId(fileName) \o Str("_wrapper"),
    label            |-> "View",                         \* toggleBtn.textContent
    preview          |-> LOADING,                        \* preview.textContent
    previewCollapsed |-> FALSE,                          \* preview class 'collapsed'
    wrapperId        |-> makeId(fileName) \o Str("_wrapper"),
    wrapperExpanded  |-> FALSE,                          \* wrapper class 'expanded'
    ariaHidden       |-> "true",                         \* wrapper aria-hidden
    codeId           |-> makeId(fileName) \o Str("_code"),
    pre              |-> <<>>,                           \* pre.textContent
    dataTarget       |-> makeId(fileName) \o Str("_code"),
    status           |-> "" ]                            \* status.textContent

-----------------------------------------------------------------------------
(* What the network can answer *)

\* the body served for the file at index i of the list
Body(i) == [k \in 1..i |-> "A"] \o <<LF, "B">>

HttpNotFound == [ok |-> FALSE, status |-> "404", statusText |-> "Not Found"]
HttpOk       == [ok |-> TRUE,  status |-> "200", statusText |-> "OK"]
Responses    == {HttpOk, HttpNotFound}

NetworkError == [name |-> "TypeError", message |-> Str("Failed to fetch")]

\* new Error(`${resp.status} ${resp.statusText}`)
StatusError(resp) ==
  [name |-> "Error", message |-> <<resp.status, " ", resp.statusText>>]

\* String(err) of an Error: the name alone when the message is empty, the
\* message alone when the name is empty, else name, ": " and message
ErrString(err) ==
  LET noMessage == \A k \in 1..Len(err.message) : err.message[k] = ""
  IN  IF err.name = "" THEN err.message
      ELSE IF noMessage THEN <<err.name>>
      ELSE <<err.name, ": ">> \o err.message

\* the two ways the try block of one iteration ends
Loaded(text) == [kind |-> "text", text |-> text, err |-> NetworkError]
Thrown(err)  == [kind |-> "error", text |-> <<>>, err |-> err]

-----------------------------------------------------------------------------
(* The DOMContentLoaded handler *)

\* a variant that issues the fetches of all remaining files together
StartFetchAll(reqs, i) == reqs \cup (i..NumFiles)

\* fetch(url) for the file at index i
StartFetch(reqs, i) == reqs \cup {i}

\* the awaited fetch of the file at index i has settled
Complete(reqs, i) == reqs \ {i}

\* the try block after both awaits, for the card at index i
Render(cs, i, text) ==
  [cs EXCEPT ![i].preview = PreviewOf(text), ![i].pre = text]

\* the catch block, for the card at index i
Catch(cs, i, err) ==
  [cs EXCEPT ![i].preview = Str("Failed to load prompt: ") \o ErrString(err),
             ![i].pre = <<>>,
             ![i].status = "Error loading file"]

\* a variant that inserts the card before the others
AppendCardFront(cs, card) == <<card>> \o cs

\* grid.appendChild(card)
AppendCard(cs, card) == Append(cs, card)

\* a variant that attaches the click listener only
IterateClickOnly(cs, reqs, i) ==
  IF i <= Len(promptFiles)
  THEN /\ cards' = AppendCard(cs, Skeleton(promptFiles[i]))
       /\ requests' = StartFetch(reqs, i)
       /\ idx' = i
       /\ pc' = "await_fetch"
       /\ listeners' = listeners
  ELSE /\ cards' = cs
       /\ requests' = reqs
       /\ idx' = i
       /\ pc' = "done"
       /\ listeners' = {"click"}

\* the loop from the head of iteration i up to its first await, or, past the
\* last file, the rest of the handler: both listeners are attached
Iterate(cs, reqs, i) ==
  IF i <= Len(promptFiles)
  THEN /\ cards' = AppendCard(cs, Skeleton(promptFiles[i]))
       /\ requests' = StartFetch(reqs, i)
       /\ idx' = i
       /\ pc' = "await_fetch"
       /\ listeners' = listeners
  ELSE /\ cards' = cs
       /\ requests' = reqs
       /\ idx' = i
       /\ pc' = "done"
       /\ listeners' = {"click", "keydown"}

\* a variant without the catch: the exception ends the handler
CatchBranchRethrow(err) ==
  /\ cards' = cards
  /\ requests' = Complete(requests, idx)
  /\ results' = Append(results, Thrown(err))
  /\ pc' = "done"
  /\ UNCHANGED <<idx, listeners>>

\* an exception thrown in the try block of iteration idx
CatchBranch(err) ==
  /\ Iterate(Catch(cards, idx, err), Complete(requests, idx), idx + 1)
  /\ results' = Append(results, Thrown(err))

\* the try block of iteration idx ran to its end
TryBranch(text) ==
  /\ Iterate(Render(cards, idx, text), Complete(requests, idx), idx + 1)
  /\ results' = Append(results, Loaded(text))

Init ==
  /\ hasGrid \in BOOLEAN
  /\ pc = "start"
  /\ idx = 0
  /\ cards = <<>>
  /\ requests = {}
  /\ results = <<>>
  /\ listeners = {}
  /\ hasExpanded = FALSE
  /\ focus = NoFocus
  /\ focusTimers = [i \in 1..NumFiles |-> 0]
  /\ writes = [i \in 1..NumFiles |-> <<>>]
  /\ clearTimers = [i \in 1..NumFiles |-> 0]
  /\ toggles = [i \in 1..NumFiles |-> 0]
  /\ escapes = [i \in 1..NumFiles |-> FALSE]
  /\ ptext = <<>>
  /\ ppreview = <<>>
  /\ pdone = FALSE

uiRest == <<hasExpanded, focus, focusTimers, writes, clearTimers, toggles, escapes>>

\* a variant without the guard on the grid
DOMContentLoadedNoGuard ==
  /\ pc = "start"
  /\ Iterate(cards, requests, 1)
  /\ results' = results
  /\ UNCHANGED <<hasGrid, uiRest, pVars>>

\* the handler runs up to its first await (or returns: no grid)
DOMContentLoaded ==
  /\ pc = "start"
  /\ IF ~hasGrid
     THEN /\ pc' = "done"
          /\ UNCHANGED <<idx, cards, requests, listeners>>
     ELSE Iterate(cards, requests, 1)
  /\ results' = results
  /\ UNCHANGED <<hasGrid, uiRest, pVars>>

\* await fetch(url) settles: a response, or a rejection (transport error)
FetchResponse ==
  /\ pc = "await_fetch"
  /\ \E resp \in Responses :
       IF resp.ok
       THEN /\ pc' = "await_text"
            /\ UNCHANGED <<idx, cards, requests, results, listeners>>
       ELSE CatchBranch(StatusError(resp))
  /\ UNCHANGED <<hasGrid, uiRest, pVars>>

FetchReject ==
  /\ pc = "await_fetch"
  /\ CatchBranch(NetworkError)
  /\ UNCHANGED <<hasGrid, uiRest, pVars>>

\* await resp.text() settles
TextResolve ==
  /\ pc = "await_text"
  /\ TryBranch(Body(idx))
  /\ UNCHANGED <<hasGrid, uiRest, pVars>>

TextReject ==
  /\ pc = "await_text"
  /\ CatchBranch(NetworkError)
  /\ UNCHANGED <<hasGrid, uiRest, pVars>>

-----------------------------------------------------------------------------
(* The delegated listeners of the grid *)

loadVars == <<hasGrid, pc, idx, requests, results, listeners>>

RECURSIVE SumTo(_, _)
SumTo(f, n) == IF n = 0 THEN 0 ELSE f[n] + SumTo(f, n - 1)
Total(f) == SumTo(f, NumFiles)
InFlight(w) == Total([i \in 1..NumFiles |-> Len(w[i])])

\* document.getElementById(id) for a wrapper id: the first card in document
\* order whose wrapper carries it
WrapperById(cs, id) ==
  CHOOSE k \in 1..Len(cs) :
    /\ cs[k].wrapperId = id
    /\ \A j \in 1..(k - 1) : cs[j].wrapperId # id

\* document.getElementById(id) for the id of a pre element
CodeById(cs, id) ==
  CHOOSE k \in 1..Len(cs) :
    /\ cs[k].codeId = id
    /\ \A j \in 1..(k - 1) : cs[j].codeId # id

\* a variant that looks at the first wrapper only
FirstExpanded(cs) == Len(cs) > 0 /\ cs[1].wrapperExpanded

\* updateGridExpandedState, on the cards as they are after the handler's changes
AnyExpanded(cs) == \E k \in 1..Len(cs) : cs[k].wrapperExpanded

\* String(!expanded)
BoolString(b) == IF b THEN "true" ELSE "false"

\* a variant that leaves the label of the button as it is
ToggleCardsKeepLabel(cs, i) ==
  LET expanded == cs[i].ariaExpanded = "true"
  IN  [cs EXCEPT ![i].ariaExpanded = BoolString(~expanded),
                 ![i].previewCollapsed = ~expanded,
                 ![i].wrapperExpanded = ~expanded,
                 ![i].ariaHidden = BoolString(expanded)]

\* the toggle branch of the click listener, for the toggle button of card i
ToggleCards(cs, i) ==
  LET w == WrapperById(cs, cs[i].ariaControls)
      expanded == cs[i].ariaExpanded = "true"
      c1 == [cs EXCEPT ![i].ariaExpanded = BoolString(~expanded)]
  IN  IF ~expanded
      THEN LET c2 == [c1 EXCEPT ![i].previewCollapsed = TRUE]
               c3 == [c2 EXCEPT ![w].wrapperExpanded = TRUE,
                                ![w].ariaHidden = "false"]
           IN  [c3 EXCEPT ![i].label = "Collapse"]
      ELSE LET c2 == [c1 EXCEPT ![i].previewCollapsed = FALSE]
               c3 == [c2 EXCEPT ![w].wrapperExpanded = FALSE,
                                ![w].ariaHidden = "true"]
           IN  [c3 EXCEPT ![i].label = "View"]

ClickToggle(i) ==
  /\ "click" \in listeners
  /\ i \in 1..Len(cards)
  /\ LET expanded == cards[i].ariaExpanded = "true"
     IN  /\ expanded \/ Total(focusTimers) < MaxFocusTimers
         /\ cards' = ToggleCards(cards, i)
         \* if (codeEl) setTimeout(() => { codeEl.focus(); }, 120)
         /\ focusTimers' = IF ~expanded
                           THEN [focusTimers EXCEPT ![i] = @ + 1]
                           ELSE focusTimers
  /\ hasExpanded' = AnyExpanded(cards')
  /\ toggles' = [toggles EXCEPT ![i] = (@ + 1) % 2]
  /\ UNCHANGED <<loadVars, focus, writes, clearTimers, escapes, pVars>>

\* a variant that reads the preview of the card
CopyTextOfPreview(cs, i) == cs[i].preview

\* const text = codeEl.textContent, for the copy button of card i
CopyText(cs, i) == cs[CodeById(cs, cs[i].dataTarget)].pre

\* the copy branch of the click listener, for the copy button of card i
ClickCopy(i) ==
  /\ "click" \in listeners
  /\ i \in 1..Len(cards)
  /\ InFlight(writes) + Total(clearTimers) < MaxCopies
  /\ writes' = [writes EXCEPT ![i] = Append(@, CopyText(cards, i))]
  /\ UNCHANGED <<loadVars, cards, hasExpanded, focus, focusTimers,
                 clearTimers, toggles, escapes, pVars>>

COPIED == "Copied to clipboard (U+2713)"

\* a variant that writes the message into the status line of every card
SettleAllCards(i, message) ==
  /\ i \in 1..Len(cards)
  /\ Len(writes[i]) > 0
  /\ cards' = [k \in 1..Len(cards) |-> [cards[k] EXCEPT !.status = message]]
  /\ clearTimers' = [clearTimers EXCEPT ![i] = @ + 1]
  /\ writes' = [writes EXCEPT ![i] = Tail(@)]
  /\ UNCHANGED <<loadVars, hasExpanded, focus, focusTimers, toggles, escapes, pVars>>

\* a then/catch callback of the write: the message and the clear timer
Settle(i, message) ==
  /\ i \in 1..Len(cards)
  /\ Len(writes[i]) > 0
  /\ cards' = [cards EXCEPT ![i].status = message]
  /\ clearTimers' = [clearTimers EXCEPT ![i] = @ + 1]
  /\ writes' = [writes EXCEPT ![i] = Tail(@)]
  /\ UNCHANGED <<loadVars, hasExpanded, focus, focusTimers, toggles, escapes, pVars>>

\* navigator.clipboard.writeText(text) fulfils
WriteResolve(i) == Settle(i, COPIED)

\* navigator.clipboard.writeText(text) rejects
WriteReject(i) == Settle(i, "Copy failed")

\* a variant that empties the full text instead of the status line
ClearTimeoutOfCode(i) ==
  /\ i \in 1..Len(cards)
  /\ clearTimers[i] > 0
  /\ cards' = [cards EXCEPT ![i].pre = <<>>]
  /\ clearTimers' = [clearTimers EXCEPT ![i] = @ - 1]
  /\ UNCHANGED <<loadVars, hasExpanded, focus, focusTimers, writes,
                 toggles, escapes, pVars>>

\* setTimeout(() => { statusEl.textContent = ''; }, 2200) fires
ClearTimeout(i) ==
  /\ i \in 1..Len(cards)
  /\ clearTimers[i] > 0
  /\ cards' = [cards EXCEPT ![i].status = ""]
  /\ clearTimers' = [clearTimers EXCEPT ![i] = @ - 1]
  /\ UNCHANGED <<loadVars, hasExpanded, focus, focusTimers, writes,
                 toggles, escapes, pVars>>

\* setTimeout(() => { codeEl.focus(); }, 120) fires
FocusTimeout(i) ==
  /\ i \in 1..Len(cards)
  /\ focusTimers[i] > 0
  /\ focus' = <<"code", i>>
  /\ focusTimers' = [focusTimers EXCEPT ![i] = @ - 1]
  /\ UNCHANGED <<loadVars, cards, hasExpanded, writes, clearTimers,
                 toggles, escapes, pVars>>

Keys == {"Escape", "Enter"}

\* a variant that collapses every card of the grid
EscapeAllCards(cs, i) ==
  [k \in 1..Len(cs) |->
     [cs[k] EXCEPT !.wrapperExpanded = FALSE,
                   !.ariaHidden = "true",
                   !.previewCollapsed = FALSE,
                   !.ariaExpanded = "false",
                   !.label = "View"]]

\* a variant that leaves the toggle button as it is
EscapeCardsKeepToggle(cs, i) ==
  [cs EXCEPT ![i].wrapperExpanded = FALSE,
             ![i].ariaHidden = "true",
             ![i].previewCollapsed = FALSE]

\* the body of the keydown listener's if, for the pre element of card i
EscapeCards(cs, i) ==
  [cs EXCEPT ![i].wrapperExpanded = FALSE,
             ![i].ariaHidden = "true",
             ![i].previewCollapsed = FALSE,
             ![i].ariaExpanded = "false",
             ![i].label = "View"]

\* a key is pressed while the focus is on an element of the grid
Keydown(key) ==
  /\ "keydown" \in listeners
  /\ focus # NoFocus
  /\ IF key = "Escape" /\ focus[1] = "code"
     THEN /\ cards' = EscapeCards(cards, focus[2])
          /\ focus' = <<"toggle", focus[2]>>
          /\ hasExpanded' = AnyExpanded(cards')
          /\ escapes' = [escapes EXCEPT ![focus[2]] = TRUE]
     ELSE UNCHANGED <<cards, focus, hasExpanded, escapes>>
  /\ UNCHANGED <<loadVars, focusTimers, writes, clearTimers, toggles, pVars>>

Next ==
  \/ DOMContentLoaded
  \/ FetchResponse
  \/ FetchReject
  \/ TextResolve
  \/ TextReject
  \/ \E i \in 1..NumFiles : ClickToggle(i)
  \/ \E i \in 1..NumFiles : ClickCopy(i)
  \/ \E i \in 1..NumFiles : WriteResolve(i)
  \/ \E i \in 1..NumFiles : WriteReject(i)
  \/ \E i \in 1..NumFiles : ClearTimeout(i)
  \/ \E i \in 1..NumFiles : FocusTimeout(i)
  \/ \E key \in Keys : Keydown(key)

Spec == Init /\ [][Next]_vars

\* Spec is the page with every interaction.  The two specifications below
\* follow the loading together with one kind of interaction each.

\* loading, and the toggle, focus and keyboard behaviour
NextToggle ==
  \/ DOMContentLoaded
  \/ FetchResponse
  \/ FetchReject
  \/ TextResolve
  \/ TextReject
  \/ \E i \in 1..NumFiles : ClickToggle(i)
  \/ \E i \in 1..NumFiles : FocusTimeout(i)
  \/ \E key \in Keys : Keydown(key)

SpecToggle == Init /\ [][NextToggle]_vars

\* loading, and the copy behaviour
NextCopy ==
  \/ DOMContentLoaded
  \/ FetchResponse
  \/ FetchReject
  \/ TextResolve
  \/ TextReject
  \/ \E i \in 1..NumFiles : ClickCopy(i)
  \/ \E i \in 1..NumFiles : WriteResolve(i)
  \/ \E i \in 1..NumFiles : WriteReject(i)
  \/ \E i \in 1..NumFiles : ClearTimeout(i)

SpecCopy == Init /\ [][NextCopy]_vars

\* a timeout that is due fires: the event loop runs every callback it holds
FairSpecCopy ==
  SpecCopy /\ \A i \in 1..NumFiles : WF_vars(ClearTimeout(i))

\* the page is ready, and every fetch and every body read settles
FairSpecLoad ==
  /\ SpecCopy
  /\ WF_vars(DOMContentLoaded)
  /\ WF_vars(FetchResponse \/ FetchReject)
  /\ WF_vars(TextResolve \/ TextReject)

-----------------------------------------------------------------------------
(* The preview derivation on its own, over bounded texts *)

Alphabet == {"a", LF, CR}

ShortTexts == UNION {[1..n -> Alphabet] : n \in 0..MaxLen}

Repeat(c, n) == [k \in 1..n |-> c]

\* texts around the 400 character threshold: one line, and two lines
LongTexts ==
  {Repeat("a", n) : n \in (PreviewChars - 1)..(PreviewChars + MaxOver)}
  \cup {Repeat("a", n) \o <<LF, "a">> : n \in (PreviewChars - 1)..(PreviewChars + MaxOver)}

Texts == ShortTexts \cup LongTexts

InitPreview ==
  /\ hasGrid = TRUE
  /\ pc = "start"
  /\ idx = 0
  /\ cards = <<>>
  /\ requests = {}
  /\ results = <<>>
  /\ listeners = {}
  /\ hasExpanded = FALSE
  /\ focus = NoFocus
  /\ focusTimers = [i \in 1..NumFiles |-> 0]
  /\ writes = [i \in 1..NumFiles |-> <<>>]
  /\ clearTimers = [i \in 1..NumFiles |-> 0]
  /\ toggles = [i \in 1..NumFiles |-> 0]
  /\ escapes = [i \in 1..NumFiles |-> FALSE]
  /\ ptext \in Texts
  /\ ppreview = <<>>
  /\ pdone = FALSE

\* lines 122-124 applied to ptext
DerivePreview ==
  /\ ~pdone
  /\ ppreview' = PreviewOf(ptext)
  /\ pdone' = TRUE
  /\ UNCHANGED <<ptext, loadVars, cards, uiRest>>

NextPreview == DerivePreview

SpecPreview == InitPreview /\ [][NextPreview]_vars

-----------------------------------------------------------------------------
(* Properties *)

Settled(i) == i <= Len(results)
Failed(i) == Settled(i) /\ results[i].kind = "error"
Succeeded(i) == Settled(i) /\ results[i].kind = "text"
InitFinished == hasGrid /\ pc = "done" /\ requests = {}

\* sub occurs in s as a run of consecutive units
Contains(s, sub) ==
  \E k \in 1..(Len(s) - Len(sub) + 1) : SubSeq(s, k, k + Len(sub) - 1) = sub

\* C1: once initialization has finished, the grid holds exactly one card per
\* file of the list, in list order, whatever each fetch answered.
C1_OneCardPerFile ==
  InitFinished =>
    /\ Len(cards) = Len(promptFiles)
    /\ \A i \in 1..Len(promptFiles) : cards[i].file = promptFiles[i]

\* initialization finished with one fetch failed and one succeeded
C1_Witness ==
  /\ InitFinished
  /\ Len(cards) = NumFiles
  /\ \E i, j \in 1..NumFiles : Failed(i) /\ Succeeded(j)

\* the content of the card at index i is what its own answer alone gives
RenderedFromOwnResult(i) ==
  IF results[i].kind = "error"
  THEN /\ cards[i].pre = <<>>
       /\ Contains(cards[i].preview, ErrString(results[i].err))
  ELSE /\ cards[i].pre = results[i].text
       /\ cards[i].preview = PreviewOf(results[i].text)

C2_State ==
  /\ \A i \in 1..Len(results) : RenderedFromOwnResult(i)
  /\ InitFinished => Len(results) = Len(promptFiles)
  /\ (Len(results) >= 1 /\ Len(results) < Len(promptFiles)) =>
       /\ requests = {Len(results) + 1}
       /\ Len(cards) = Len(results) + 1

C2_Step ==
  (Len(results') = Len(results) + 1 /\ results'[Len(results')].kind = "error")
    => cards'[Len(results')].status = "Error loading file"

\* C2: a failed fetch gives its card an empty full text, a preview that
\* contains the error detail and, when it fails, the error indicator in the
\* status line; the loop goes on: the next file is fetched, and every later
\* card is rendered from its own answer alone.
C2_FailureIsolated == [](C2_State) /\ [][C2_Step]_vars

\* the first fetch failed with a non-success status, the second succeeded
C2_Witness ==
  /\ InitFinished
  /\ Failed(1) /\ results[1].err = StatusError(HttpNotFound)
  /\ cards[1].pre = <<>>
  /\ Succeeded(2) /\ cards[2].pre = Body(2)

\* C9: at most one fetch is outstanding, and it is the fetch of the file
\* right after the files whose fetch has completed.
C9_OneFetchAtATime ==
  /\ Cardinality(requests) <= 1
  /\ \A i \in requests : i = Len(results) + 1

\* the second fetch is outstanding, after the first has completed
C9_Witness == requests = {2} /\ Len(results) = 1

\* C10: while the fetch of a file is pending, every earlier card, whose
\* content has loaded, responds to its toggle and copy controls.
C10_EarlierCardsRespond ==
  \A k \in requests : \A i \in 1..(k - 1) :
    Settled(i) => (ENABLED ClickToggle(i)) /\ (ENABLED ClickCopy(i))

Collapsed(c) ==
  /\ ~c.wrapperExpanded /\ c.ariaHidden = "true" /\ ~c.previewCollapsed
  /\ c.label = "View" /\ c.ariaExpanded = "false"

Expanded(c) ==
  /\ c.wrapperExpanded /\ c.ariaHidden = "false" /\ c.previewCollapsed
  /\ c.label = "Collapse" /\ c.ariaExpanded = "true"

\* C3: a card that has only been acted on through its toggle control is
\* collapsed, labelled "View" with aria-expanded "false", after an even
\* number of activations, and expanded, labelled "Collapse" with
\* aria-expanded "true", after an odd number, whatever happened to the
\* toggles of the other cards.
C3_ToggleParity ==
  \A i \in 1..Len(cards) :
    ~escapes[i] =>
      /\ toggles[i] = 0 =>
           /\ ~cards[i].wrapperExpanded
           /\ cards[i].label = "View"
           /\ cards[i].ariaExpanded = "false"
      /\ toggles[i] = 1 =>
           /\ cards[i].wrapperExpanded
           /\ cards[i].label = "Collapse"
           /\ cards[i].ariaExpanded = "true"

\* a card toggled an even number of times, at least twice (the focus reached
\* its full text meanwhile), while another card was toggled an odd number
C3_Witness ==
  \E i, j \in 1..Len(cards) :
    /\ i # j
    /\ ~escapes[i] /\ toggles[i] = 0 /\ focus = <<"code", i>>
    /\ ~escapes[j] /\ toggles[j] = 1

\* the listener handles Escape with the focus in the full text of card c
EscapeIn(c) ==
  /\ focus = <<"code", c>>
  /\ Keydown("Escape")

C4_Step ==
  \A c \in 1..Len(cards) :
    (EscapeIn(c) /\ cards[c].wrapperExpanded) =>
      /\ Collapsed(cards'[c])
      /\ focus' = <<"toggle", c>>
      /\ \A j \in 1..Len(cards) : j # c => cards'[j] = cards[j]

\* C4: Escape with the focus in the full text of an expanded card collapses
\* that card, moves the focus to its toggle, and leaves every other card as
\* it was.
C4_EscapeCollapsesOne == [][C4_Step]_vars

\* a card was collapsed by Escape while another card stays expanded
C4_Witness ==
  \E c, j \in 1..Len(cards) :
    /\ c # j
    /\ escapes[c] /\ focus = <<"toggle", c>> /\ Collapsed(cards[c])
    /\ toggles[c] = 1
    /\ Expanded(cards[j])

\* the status line of the card at index i, empty while there is no such card
StatusOf(i) == IF i <= Len(cards) THEN cards[i].status ELSE ""

C5_Args ==
  \A i \in 1..NumFiles : \A k \in 1..Len(writes[i]) :
    i <= Len(cards) /\ writes[i][k] = cards[i].pre

C5_Timer ==
  \A i \in 1..Len(cards) : cards[i].status = COPIED => clearTimers[i] > 0

C5_Step ==
  \A i \in 1..Len(cards) :
    WriteResolve(i) => cards'[i].status = COPIED /\ clearTimers'[i] > 0

\* C5: the text passed to the clipboard write is the full text of the card;
\* when the write succeeds the status line shows the success message, with a
\* clear timer pending, and the status line is eventually empty again.
C5_CopyThenClear ==
  /\ [](C5_Args /\ C5_Timer)
  /\ [][C5_Step]_vars
  /\ \A i \in 1..NumFiles : (StatusOf(i) = COPIED) ~> (StatusOf(i) = "")

\* the copy of a loaded text succeeded and its message is shown
C5_Witness ==
  \E i \in 1..Len(cards) :
    /\ cards[i].status = COPIED
    /\ Succeeded(i) /\ cards[i].pre = Body(i)
    /\ writes[i] = <<>>

NumLines(text) == Len(Split(text))

\* the first six lines of the text, joined by line feeds
SixLines(text) == Join(SubSeq(Split(text), 1, 6))

MARK == <<LF, ELLIPSIS>>

\* C6, as stated: a text of at least 6 lines has the preview of its first 6
\* lines followed by the ellipsis marker.
C6_AtLeastSixLines ==
  (pdone /\ NumLines(ptext) >= 6) => ppreview = SixLines(ptext) \o MARK

\* C6, amended: a text of more than 6 lines has the preview of its first 6
\* lines followed by the ellipsis marker.
C6_MoreThanSixLines ==
  (pdone /\ NumLines(ptext) > 6) => ppreview = SixLines(ptext) \o MARK

\* a text of seven lines, the seventh not empty, has its preview
C6_Witness ==
  /\ pdone
  /\ NumLines(ptext) = 7
  /\ Split(ptext)[7] = <<"a">>
  /\ ppreview = SixLines(ptext) \o MARK

\* C7: a text of one line that is longer than 400 characters has the preview
\* of its first 400 characters followed by the ellipsis marker.
C7_LongLineCut ==
  (pdone /\ NumLines(ptext) = 1 /\ Len(ptext) > 400) =>
    ppreview = SubSeq(ptext, 1, 400) \o MARK

\* C8: a text of fewer than 6 lines and at most 400 characters, with line
\* feeds or with carriage return and line feed, has itself as preview, with
\* no ellipsis marker; the marker is only there when the text is longer than
\* what the preview shows.
C8_ShortTextWhole ==
  /\ (pdone /\ NumLines(ptext) < 6 /\ Len(ptext) <= 400) => ppreview = ptext
  /\ (pdone /\ Len(ppreview) >= 2
        /\ SubSeq(ppreview, Len(ppreview) - 1, Len(ppreview)) = MARK)
       => Len(ptext) > Len(ppreview) - 2

\* C11: the grid carries has-expanded exactly when a wrapper of one of its
\* cards carries expanded, after every toggle click and every Escape handled
\* (and before the first of them).
C11_HasExpandedIffAny ==
  hasExpanded <=> (\E i \in 1..Len(cards) : cards[i].wrapperExpanded)

\* one card was collapsed by Escape, another one is still expanded, and the
\* grid carries the class
C11_Witness ==
  /\ hasExpanded
  /\ \E i, j \in 1..Len(cards) :
       /\ escapes[i] /\ ~cards[i].wrapperExpanded
       /\ cards[j].wrapperExpanded /\ toggles[j] = 1

\* C12: without the grid element the handler returns at once: no fetch is
\* issued, no card is built, no listener is attached, nothing is answered or
\* thrown, and no interaction has any effect.
C12_NoGridNoWork ==
  ~hasGrid =>
    /\ pc \in {"start", "done"}
    /\ requests = {} /\ results = <<>>
    /\ cards = <<>>
    /\ listeners = {}
    /\ ~hasExpanded /\ focus = NoFocus
    /\ pc = "done" => ~(ENABLED Next)

\* the handler has returned on a page without the grid
C12_Witness == ~hasGrid /\ pc = "done"

\* C14: the cards of the grid are a prefix of the list, in list order; a
\* fetch is outstanding only for the last card appended, and that card is
\* still the skeleton: loading placeholder, empty full text, collapsed.
C14_SkeletonBeforeFetch ==
  /\ Len(cards) <= Len(promptFiles)
  /\ \A i \in 1..Len(cards) : cards[i].file = promptFiles[i]
  /\ \A i \in requests :
       /\ i = Len(cards)
       /\ cards[i].preview = LOADING
       /\ cards[i].pre = <<>>
       /\ Collapsed(cards[i])
       /\ cards[i].status = ""

\* the second card is a skeleton with its fetch outstanding, the first is loaded
C14_Witness ==
  /\ requests = {2} /\ Len(cards) = 2
  /\ cards[2].preview = LOADING
  /\ Succeeded(1) /\ cards[1].preview # LOADING

\* C16: for each card the five marks of the expanded state agree:
\* aria-expanded "true", wrapper class expanded, aria-hidden "false", label
\* "Collapse", preview class collapsed.
C16_MarksAgree ==
  \A i \in 1..Len(cards) : Expanded(cards[i]) \/ Collapsed(cards[i])

\* a card that was collapsed by Escape and then expanded again by its toggle
C16_Witness ==
  \E i \in 1..Len(cards) :
    escapes[i] /\ toggles[i] = 0 /\ Expanded(cards[i])

\* the card at index i with its status line emptied
WithoutStatus(c) == [c EXCEPT !.status = ""]

\* a step of the copy of card a: the click, an outcome of the write, the timer
CopyStep(a) ==
  ClickCopy(a) \/ WriteResolve(a) \/ WriteReject(a) \/ ClearTimeout(a)

C13_Step ==
  \A a \in 1..Len(cards) :
    CopyStep(a) =>
      /\ Len(cards') = Len(cards)
      /\ \A j \in 1..Len(cards) : j # a => cards'[j] = cards[j]
      /\ WithoutStatus(cards'[a]) = WithoutStatus(cards[a])
      /\ hasExpanded' = hasExpanded /\ focus' = focus
      /\ focusTimers' = focusTimers
      /\ <<pc, idx, requests, results, listeners>>' =
           <<pc, idx, requests, results, listeners>>
      /\ WriteReject(a) => cards'[a].status = "Copy failed"

\* C13: a step of a copy on card A (click, outcome of the write, clear
\* timer) changes nothing of the page but the status line of A, whatever
\* other copies and toggles are under way; a rejected write leaves the
\* failure message in that status line and nothing else.
C13_CopyContained == [][C13_Step]_vars

\* a write of card 1 was rejected while card 2 is expanded and shows the
\* message of its own copy
C13_Witness ==
  /\ Len(cards) = 2
  /\ cards[1].status = "Copy failed"
  /\ cards[2].status = COPIED
  /\ Expanded(cards[2]) /\ Collapsed(cards[1])

C15_Step ==
  /\ \A i \in 1..Len(results) :
       /\ cards'[i].pre = cards[i].pre
       /\ cards'[i].pre = (IF results[i].kind = "text" THEN results[i].text ELSE <<>>)
  /\ \A i \in requests' \ requests : i > Len(cards) /\ i = Len(cards')
  /\ \A i \in 1..Len(results) : i \notin requests'
  /\ Len(cards') >= Len(cards)

\* C15: a fetch is only issued for a file that has no card yet, so each
\* file is fetched at most once, failed or not; and the full text of a card
\* whose load has settled is what its load wrote and never changes again.
C15_FetchedOnceContentFixed == [][C15_Step]_vars

\* a loaded card went through toggle, Escape and copy, a clear timer of it
\* has fired, and its full text is the body that was served
C15_Witness ==
  \E i \in 1..Len(cards) :
    /\ Succeeded(i) /\ cards[i].pre = Body(i)
    /\ escapes[i] /\ toggles[i] = 1
    /\ cards[i].status = "" /\ clearTimers[i] = 1
    /\ \E j \in 1..Len(cards) : Failed(j)

\* C17: while the clear timer of the latest copy of a card is pending (the
\* timers of a card fire in the order they were set), the message of that
\* copy is in the status line.
C17_MessageUntilOwnTimer ==
  \A i \in 1..Len(cards) :
    clearTimers[i] > 0 => cards[i].status \in {COPIED, "Copy failed"}

ERROR_LOADING == "Error loading file"

\* C18: on a card whose load failed, the error indicator is in the status
\* line whenever no copy of that card is under way.
C18_IndicatorPersists ==
  \A i \in 1..Len(cards) :
    (Failed(i) /\ writes[i] = <<>> /\ clearTimers[i] = 0)
      => cards[i].status = ERROR_LOADING

C19_Step ==
  \A i \in 1..Len(cards) :
    (focus # <<"code", i>> /\ focus' = <<"code", i>>) => cards'[i].wrapperExpanded

\* C19: the focus is only moved into the full text of a card that is
\* expanded at that moment.
C19_FocusOnlyIntoExpanded == [][C19_Step]_vars

\* every card shows its text or its failure, and both listeners are attached
Finished ==
  /\ pc = "done" /\ requests = {}
  /\ Len(cards) = Len(promptFiles) /\ Len(results) = Len(promptFiles)
  /\ \A i \in 1..Len(cards) :
       /\ cards[i].preview # LOADING
       /\ \/ Succeeded(i) /\ cards[i].preview = PreviewOf(cards[i].pre)
             /\ cards[i].pre = results[i].text
          \/ Failed(i) /\ Contains(cards[i].preview, Str("Failed to load prompt: "))
  /\ listeners = {"click", "keydown"}
  /\ \A i \in 1..Len(cards) : ENABLED ClickToggle(i)

\* C20: on a page with the grid, when every fetch settles, initialization
\* finishes: no card shows the placeholder, each shows its text or its
\* failure message, and the click and keydown listeners are attached.
C20_InitFinishes == hasGrid ~> Finished

\* initialization has finished, with a failed and a loaded card
C20_Witness ==
  /\ Finished
  /\ \E i, j \in 1..Len(cards) : Failed(i) /\ Succeeded(j)
  /\ writes = [i \in 1..NumFiles |-> <<>>]

=============================================================================
